---- MODULE Spec2Model ----
(***************************************************************************)
(* 8086 instruction decoder and execution engine (HughCrail/8086).         *)
(*                                                                         *)
(* The byte source is a file read strictly forward through ByteStream; the *)
(* model keeps its length (size) and the cursor (pos), and the bytes of    *)
(* one instruction are supplied as the decoder asks for them (Fetch).      *)
(* One action, Execute, is one call of Computer::execute_instruction.      *)
(***************************************************************************)
EXTENDS Integers, Sequences, FiniteSets, TLC

\* ------------------------------------------------------------------------
\* Bounds of the model
\* ------------------------------------------------------------------------

\* longest program file, in bytes, with bytes from ExecBytes
MaxLen == 4

\* longest program file, in bytes, with bytes from AliasBytes
MaxAliasLen == 6

\* longest program file, in bytes, whose first two bytes are arbitrary
MaxDecodeLen == 3

\* longest file of addressing-mode test programs, in bytes
MaxModrmLen == 4

\* longest file of immediate-operand test programs, in bytes
MaxImmLen == 6

\* longest file of the programs run to their end, in bytes
MaxRunLen == 4

\* ------------------------------------------------------------------------
\* Machine arithmetic on u8 / u16
\* ------------------------------------------------------------------------

Pow2(n) == 2 ^ n

U16 == 65536

Byte == 0 .. 255

\* x >> n
Shr(x, n) == x \div Pow2(n)

\* (x << n) on u16: bits shifted past bit 15 are dropped, no overflow check
Shl16(x, n) == (x * Pow2(n)) % U16

\* bitwise a & b
RECURSIVE BitAnd(_, _)
BitAnd(a, b) ==
    IF a = 0 \/ b = 0 THEN 0
    ELSE (a % 2) * (b % 2) + 2 * BitAnd(a \div 2, b \div 2)

\* a.wrapping_add(b) on u16
WrappingAdd(a, b) == (a + b) % U16

\* a.wrapping_sub(b) on u16
WrappingSub(a, b) == (a - b + U16) % U16

\* u16::count_zeros: number of 0 bits among the 16 bits of x
RECURSIVE ZeroBits(_, _)
ZeroBits(x, n) ==
    IF n = 0 THEN 0
    ELSE (IF x % 2 = 0 THEN 1 ELSE 0) + ZeroBits(x \div 2, n - 1)

CountZeros(x) == ZeroBits(x, 16)

\* (x as i16): the signed reading of a 16-bit pattern
AsI16(x) == IF x >= 32768 THEN x - U16 ELSE x

\* (x as i8): the signed reading of an 8-bit pattern
AsI8(x) == IF x >= 128 THEN x - 256 ELSE x

\* (x as i8 as u16): sign extension of a byte to 16 bits
SignExtend(x) == IF x >= 128 THEN x + 65280 ELSE x

\* ------------------------------------------------------------------------
\* Register model (register.rs)
\* ------------------------------------------------------------------------

Register ==
    {"AL", "BL", "CL", "DL", "AH", "BH", "CH", "DH",
     "AX", "BX", "CX", "DX", "SP", "BP", "SI", "DI",
     "ES", "CS", "SS", "DS"}

get_type(reg) ==
    CASE reg \in {"AL", "CL", "DL", "BL"} -> "Low"
      [] reg \in {"AH", "CH", "DH", "BH"} -> "High"
      [] OTHER -> "Wide"

\* get_reg_ix keeping the byte registers of B in the slot of A
get_reg_ix_merged(reg) ==
    CASE reg \in {"AL", "AH", "AX", "BL", "BH"} -> 0
      [] reg = "BX" -> 1
      [] reg \in {"CL", "CH", "CX"} -> 2
      [] reg \in {"DL", "DH", "DX"} -> 3
      [] reg = "SP" -> 4
      [] reg = "BP" -> 5
      [] reg = "SI" -> 6
      [] reg = "DI" -> 7
      [] reg = "ES" -> 8
      [] reg = "CS" -> 9
      [] reg = "SS" -> 10
      [] reg = "DS" -> 11

get_reg_ix(reg) ==
    CASE reg \in {"AL", "AH", "AX"} -> 0
      [] reg \in {"BL", "BH", "BX"} -> 1
      [] reg \in {"CL", "CH", "CX"} -> 2
      [] reg \in {"DL", "DH", "DX"} -> 3
      [] reg = "SP" -> 4
      [] reg = "BP" -> 5
      [] reg = "SI" -> 6
      [] reg = "DI" -> 7
      [] reg = "ES" -> 8
      [] reg = "CS" -> 9
      [] reg = "SS" -> 10
      [] reg = "DS" -> 11

from_reg(reg, is_wide) ==
    CASE reg = 0 -> IF is_wide THEN "AX" ELSE "AL"
      [] reg = 1 -> IF is_wide THEN "CX" ELSE "CL"
      [] reg = 2 -> IF is_wide THEN "DX" ELSE "DL"
      [] reg = 3 -> IF is_wide THEN "BX" ELSE "BL"
      [] reg = 4 -> IF is_wide THEN "SP" ELSE "AH"
      [] reg = 5 -> IF is_wide THEN "BP" ELSE "CH"
      [] reg = 6 -> IF is_wide THEN "SI" ELSE "DH"
      [] reg = 7 -> IF is_wide THEN "DI" ELSE "BH"

from_sr(sr) ==
    CASE sr = 0 -> "ES"
      [] sr = 1 -> "CS"
      [] sr = 2 -> "SS"
      [] sr = 3 -> "DS"

\* ------------------------------------------------------------------------
\* Operand model (data.rs, target.rs, instruction.rs)
\* ------------------------------------------------------------------------

DataByte(x) == [tag |-> "Byte", val |-> x]

DataWord(x) == [tag |-> "Word", val |-> x]

create_word(b1, b2) == Shl16(b2, 8) + b1

OpNone == [tag |-> "None"]

OpRegister(r) == [tag |-> "Register", reg |-> r]

OpMemory(m) == [tag |-> "MemoryAddress", addr |-> m]

OpData(d) == [tag |-> "Data", data |-> d]

OpDataArg(e, d) == [tag |-> "DataArg", explicit |-> e, data |-> d]

OpRelativeJump(o) == [tag |-> "RelativeJump", offset |-> o]

Direct(d) == [form |-> "Direct", data |-> d]

RegnReg(r1, r2) == [form |-> "RegnReg", reg1 |-> r1, reg2 |-> r2]

Reg(r) == [form |-> "Reg", reg1 |-> r]

RegnData(r, d) == [form |-> "RegnData", reg1 |-> r, disp |-> d]

RegnRegnData(r1, r2, d) ==
    [form |-> "RegnRegnData", reg1 |-> r1, reg2 |-> r2, disp |-> d]

\* the u16 value of an immediate (Byte zero-extends, Word is itself)
DataToU16(d) == d.val

\* ------------------------------------------------------------------------
\* Byte cursor (bytestream.rs) over the bytes w of the file that follow the
\* cursor; i is the number of them already consumed.
\* ------------------------------------------------------------------------

Ok(v, i) == [err |-> "", val |-> v, n |-> i]

Fail(e, i) == [err |-> e, val |-> 0, n |-> i]

Abort(i) == [err |-> "panic", val |-> 0, n |-> i]

\* the ? operator: an error of r is returned, otherwise F goes on with r
\* (v is r, evaluated once)
Then(r, F(_)) ==
    CHOOSE out \in {IF v.err # "" THEN v ELSE F(v) : v \in {r}} : TRUE

\* next handing out a byte without moving past it
next_stuck(w, i) ==
    IF i < Len(w) THEN Ok(w[i + 1], i)
    ELSE Fail("UnexpectedEof", i)

\* ByteStream::next on the bytes w, i of them already read
next(w, i) ==
    IF i < Len(w) THEN Ok(w[i + 1], i + 1)
    ELSE Fail("UnexpectedEof", i)

\* the match of maybe_next on the result r of next
MaybeOf(r) ==
    IF r.err = "" THEN Ok([some |-> TRUE, byte |-> r.val], r.n)
    ELSE IF r.err = "UnexpectedEof" THEN Ok([some |-> FALSE, byte |-> 0], r.n)
    ELSE r

maybe_next(w, i) == MaybeOf(next(w, i))

\* ------------------------------------------------------------------------
\* Immediate data (data.rs)
\* ------------------------------------------------------------------------

to_word(b1, b2) == DataWord(create_word(b1, b2))

DispByte(x) == [tag |-> "Byte", val |-> x]

DispWord(x) == [tag |-> "Word", val |-> x]

\* Displacement_to_word keeping a word that fits in a byte as a Byte
Displacement_to_word_narrow(b1, b2) ==
    IF b2 = 0 THEN DispByte(b1) ELSE DispWord(create_word(b1, b2))

Displacement_to_word(b1, b2) == DispWord(create_word(b1, b2))

\* Data_parse taking a missing high byte of a word as zero
Data_parse_short(w, i, is_wide, sign_bit) ==
    IF is_wide /\ ~sign_bit THEN
        Then(next(w, i), LAMBDA r1 :
        IF next(w, r1.n).err # "" THEN Ok(DataWord(r1.val), r1.n)
        ELSE Ok(to_word(r1.val, next(w, r1.n).val), r1.n + 1))
    ELSE IF is_wide /\ sign_bit THEN
        Then(next(w, i), LAMBDA r1 :
        Ok(DataWord(SignExtend(r1.val)), r1.n))
    ELSE
        Then(next(w, i), LAMBDA r1 :
        Ok(DataByte(r1.val), r1.n))

\* Data::parse
Data_parse(w, i, is_wide, sign_bit) ==
    IF is_wide /\ ~sign_bit THEN
        Then(next(w, i), LAMBDA r1 :
        Then(next(w, r1.n), LAMBDA r2 :
        Ok(to_word(r1.val, r2.val), r2.n)))
    ELSE IF is_wide /\ sign_bit THEN
        Then(next(w, i), LAMBDA r1 :
        Ok(DataWord(SignExtend(r1.val)), r1.n))
    ELSE
        Then(next(w, i), LAMBDA r1 :
        Ok(DataByte(r1.val), r1.n))

\* ------------------------------------------------------------------------
\* Addressing-mode decoder (target.rs)
\* ------------------------------------------------------------------------

TargetRegister(r) == [tag |-> "Register", reg |-> r]

TargetMemory(m) == [tag |-> "Memory", addr |-> m]

\* impl From<Target> for Operand
TargetToOperand(t) ==
    IF t.tag = "Register" THEN OpRegister(t.reg) ELSE OpMemory(t.addr)

\* the memory form of r/m without a displacement (mode 01/10, zero disp)
BareAddress(r_m) ==
    CASE r_m = 0 -> RegnReg("BX", "SI")
      [] r_m = 1 -> RegnReg("BX", "DI")
      [] r_m = 2 -> RegnReg("BP", "SI")
      [] r_m = 3 -> RegnReg("BP", "DI")
      [] r_m = 4 -> Reg("SI")
      [] r_m = 5 -> Reg("DI")
      [] r_m = 6 -> Reg("BP")
      [] r_m = 7 -> Reg("BX")

\* the memory form of r/m with displacement disp
DispAddress(r_m, disp) ==
    CASE r_m = 0 -> RegnRegnData("BX", "SI", disp)
      [] r_m = 1 -> RegnRegnData("BX", "DI", disp)
      [] r_m = 2 -> RegnRegnData("BP", "SI", disp)
      [] r_m = 3 -> RegnRegnData("BP", "DI", disp)
      [] r_m = 4 -> RegnData("SI", disp)
      [] r_m = 5 -> RegnData("DI", disp)
      [] r_m = 6 -> RegnData("BP", disp)
      [] r_m = 7 -> RegnData("BX", disp)

\* Mode00 treating r/m = 110 like the other modes: BP alone, nothing read
Mode00_bp(w, i, r_m) == Ok(TargetMemory(BareAddress(r_m)), i)

\* mode 00: no displacement, r/m = 110 is a direct 16-bit address
Mode00(w, i, r_m) ==
    IF r_m = 6 THEN
        Then(next(w, i), LAMBDA r1 :
        Then(next(w, r1.n), LAMBDA r2 :
        Ok(TargetMemory(Direct(to_word(r1.val, r2.val))), r2.n)))
    ELSE
        Ok(TargetMemory(
               CASE r_m = 0 -> RegnReg("BX", "SI")
                 [] r_m = 1 -> RegnReg("BX", "DI")
                 [] r_m = 2 -> RegnReg("BP", "SI")
                 [] r_m = 3 -> RegnReg("BP", "DI")
                 [] r_m = 4 -> Reg("SI")
                 [] r_m = 5 -> Reg("DI")
                 [] r_m = 7 -> Reg("BX")), i)

NoDisp == [some |-> FALSE]

SomeDisp(d) == [some |-> TRUE, disp |-> d]

\* ReadDisplacement collapsing a word whose low byte is zero
ReadDisplacement_low(w, i, mod_val) ==
    IF mod_val = 1 THEN
        Then(next(w, i), LAMBDA d :
        Ok(IF d.val = 0 THEN NoDisp ELSE SomeDisp(DispByte(d.val)), d.n))
    ELSE
        Then(next(w, i), LAMBDA b1 :
        Then(next(w, b1.n), LAMBDA b2 :
        Ok(IF b1.val = 0 THEN NoDisp
           ELSE SomeDisp(Displacement_to_word(b1.val, b2.val)), b2.n)))

\* mode 01 reads one displacement byte, mode 10 two; zero collapses to None
ReadDisplacement(w, i, mod_val) ==
    IF mod_val = 1 THEN
        Then(next(w, i), LAMBDA d :
        Ok(IF d.val = 0 THEN NoDisp ELSE SomeDisp(DispByte(d.val)), d.n))
    ELSE
        Then(next(w, i), LAMBDA b1 :
        Then(next(w, b1.n), LAMBDA b2 :
        Ok(IF b1.val = 0 /\ b2.val = 0 THEN NoDisp
           ELSE SomeDisp(Displacement_to_word(b1.val, b2.val)), b2.n)))

Target_parse(w, i, byte_2, is_wide) ==
    IF Shr(byte_2, 6) = 3
    THEN Ok(TargetRegister(from_reg(BitAnd(byte_2, 7), is_wide)), i)
    ELSE IF Shr(byte_2, 6) = 0 THEN Mode00(w, i, BitAnd(byte_2, 7))
    ELSE
        Then(ReadDisplacement(w, i, Shr(byte_2, 6)), LAMBDA d :
        Ok(TargetMemory(IF d.val.some
                        THEN DispAddress(BitAnd(byte_2, 7), d.val.disp)
                        ELSE BareAddress(BitAnd(byte_2, 7))), d.n))

\* ------------------------------------------------------------------------
\* Operand parsers (parsers.rs)
\* ------------------------------------------------------------------------

\* EitherWay with the r/m operand as destination whatever bit 1 is
EitherWay_fixed(byte_1, reg, target) ==
    <<TargetToOperand(target), TargetToOperand(reg)>>

\* (destination, source) of parse_reg_mem_either_way from reg and target
EitherWay(byte_1, reg, target) ==
    IF BitAnd(byte_1, 2) # 0
    THEN <<TargetToOperand(reg), TargetToOperand(target)>>
    ELSE <<TargetToOperand(target), TargetToOperand(reg)>>

parse_reg_mem_either_way(byte_1, w, i) ==
    Then(next(w, i), LAMBDA byte_2 :
    Then(Target_parse(w, byte_2.n, byte_2.val, BitAnd(byte_1, 1) = 1), LAMBDA t :
    Ok(EitherWay(byte_1,
                 TargetRegister(from_reg(BitAnd(Shr(byte_2.val, 3), 7),
                                         BitAnd(byte_1, 1) = 1)),
                 t.val), t.n)))

\* parse_imm_to_reg_mem honouring bit 1 whatever check_sign_bit says
parse_imm_to_reg_mem_sign(byte_1, byte_2, w, i, check_sign_bit) ==
    Then(Target_parse(w, i, byte_2, BitAnd(byte_1, 1) = 1), LAMBDA destination :
    Then(Data_parse(w, destination.n, BitAnd(byte_1, 1) = 1,
                    BitAnd(byte_1, 2) # 0), LAMBDA data :
    Ok(<<TargetToOperand(destination.val),
         OpDataArg(destination.val.tag = "Memory", data.val)>>, data.n)))

parse_imm_to_reg_mem(byte_1, byte_2, w, i, check_sign_bit) ==
    Then(Target_parse(w, i, byte_2, BitAnd(byte_1, 1) = 1), LAMBDA destination :
    Then(Data_parse(w, destination.n, BitAnd(byte_1, 1) = 1,
                    check_sign_bit /\ BitAnd(byte_1, 2) # 0), LAMBDA data :
    Ok(<<TargetToOperand(destination.val),
         OpDataArg(destination.val.tag = "Memory", data.val)>>, data.n)))

parse_imm_to_acc(byte_1, w, i) ==
    Then(Data_parse(w, i, BitAnd(byte_1, 1) # 0, FALSE), LAMBDA data :
    Ok(<<OpRegister(IF BitAnd(byte_1, 1) # 0 THEN "AX" ELSE "AL"),
         OpData(data.val)>>, data.n))

\* byte as i8 + 2 is an i8 addition: past 127 it panics when the build
\* checks overflow and wraps otherwise
parse_ip_inc_8(byte, i, checks) ==
    IF AsI8(byte) + 2 > 127 THEN
        IF checks THEN Abort(i)
        ELSE Ok(<<OpRelativeJump(AsI8(byte) + 2 - 256), OpNone>>, i)
    ELSE Ok(<<OpRelativeJump(AsI8(byte) + 2), OpNone>>, i)

\* parse_mov_imm_to_reg taking the register from the low 2 bits only
parse_mov_imm_to_reg_low2(byte_1, w, i) ==
    Then(Data_parse(w, i, BitAnd(byte_1, 8) # 0, FALSE), LAMBDA data :
    Ok(<<OpRegister(from_reg(BitAnd(byte_1, 3), BitAnd(byte_1, 8) # 0)),
         OpData(data.val)>>, data.n))

parse_mov_imm_to_reg(byte_1, w, i) ==
    Then(Data_parse(w, i, BitAnd(byte_1, 8) # 0, FALSE), LAMBDA data :
    Ok(<<OpRegister(from_reg(BitAnd(byte_1, 7), BitAnd(byte_1, 8) # 0)),
         OpData(data.val)>>, data.n))

parse_mem(byte_1, w, i) ==
    Then(Data_parse(w, i, BitAnd(byte_1, 1) = 1, FALSE), LAMBDA data :
    Ok(Direct(data.val), data.n))

parse_mov_acc_to_mem(byte_1, w, i) ==
    Then(parse_mem(byte_1, w, i), LAMBDA m :
    Ok(<<OpMemory(m.val), OpRegister("AX")>>, m.n))

parse_mov_mem_to_acc(byte_1, w, i) ==
    Then(parse_mem(byte_1, w, i), LAMBDA m :
    Ok(<<OpRegister("AX"), OpMemory(m.val)>>, m.n))

parse_sm_to_rm(w, i) ==
    Then(next(w, i), LAMBDA b :
    Then(Target_parse(w, b.n, b.val, TRUE), LAMBDA t :
    Ok(<<TargetToOperand(t.val), OpRegister(from_sr(BitAnd(Shr(b.val, 3), 3)))>>,
       t.n)))

\* parse_rm_to_sm without the exchange of the two operands
parse_rm_to_sm_same(w, i) == parse_sm_to_rm(w, i)

parse_rm_to_sm(w, i) ==
    Then(parse_sm_to_rm(w, i), LAMBDA r : Ok(<<r.val[2], r.val[1]>>, r.n))

\* ------------------------------------------------------------------------
\* Instruction decoder (instruction.rs)
\* ------------------------------------------------------------------------

Inst(m, ops) == [mnemonic |-> m, op1 |-> ops[1], op2 |-> ops[2]]

NoInst == [mnemonic |-> "", op1 |-> OpNone, op2 |-> OpNone]

\* results of Inst::parse: Ok(None), Ok(Some(inst)), Err(e), or a panic
ParsedNone(i) == [kind |-> "None", err |-> "", inst |-> NoInst, n |-> i]

ParsedErr(e, i) == [kind |-> "Err", err |-> e, inst |-> NoInst, n |-> i]

ParsedPanic(i) == [kind |-> "Panic", err |-> "panic", inst |-> NoInst, n |-> i]

\* Parsed reporting a clean end of stream when the operands ran out of bytes
Parsed_eof_none(m, r) ==
    IF r.err = "panic" THEN ParsedPanic(r.n)
    ELSE IF r.err = "UnexpectedEof" THEN ParsedNone(r.n)
    ELSE IF r.err # "" THEN ParsedErr(r.err, r.n)
    ELSE [kind |-> "Inst", err |-> "", inst |-> Inst(m, r.val), n |-> r.n]

\* (mnemonic, operands?) followed by Ok(Some(Self::new(mnemonic, op1, op2)))
Parsed(m, r) ==
    IF r.err = "panic" THEN ParsedPanic(r.n)
    ELSE IF r.err # "" THEN ParsedErr(r.err, r.n)
    ELSE [kind |-> "Inst", err |-> "", inst |-> Inst(m, r.val), n |-> r.n]

\* the ? operator inside Inst::parse
ThenParsed(r, F(_)) ==
    CHOOSE out \in {IF v.err # "" THEN ParsedErr(v.err, v.n) ELSE F(v) : v \in {r}} : TRUE

\* the arm (M, parse_ip_inc_8(bytes.next()?))
Jump(m, w, i, checks) ==
    ThenParsed(next(w, i), LAMBDA b :
    Parsed(m, parse_ip_inc_8(b.val, b.n, checks)))

\* GroupOp decoding every other reg field as Add
GroupOp_default(b, op, byte_2, w, i) ==
    CASE op = 5 -> Parsed("Sub", parse_imm_to_reg_mem(b, byte_2, w, i, TRUE))
      [] op = 7 -> Parsed("Cmp", parse_imm_to_reg_mem(b, byte_2, w, i, TRUE))
      [] OTHER -> Parsed("Add", parse_imm_to_reg_mem(b, byte_2, w, i, TRUE))

\* the match on the reg field op of byte 2 in the immediate group
GroupOp(b, op, byte_2, w, i) ==
    CASE op = 0 -> Parsed("Add", parse_imm_to_reg_mem(b, byte_2, w, i, TRUE))
      [] op = 5 -> Parsed("Sub", parse_imm_to_reg_mem(b, byte_2, w, i, TRUE))
      [] op = 7 -> Parsed("Cmp", parse_imm_to_reg_mem(b, byte_2, w, i, TRUE))
      [] OTHER -> ParsedErr("UnsupportedOp", i)

\* the arm b >> 2 == 0b100000: the reg field of byte 2 names the operation
ImmediateGroup(b, w, i) ==
    ThenParsed(next(w, i), LAMBDA byte_2 :
    GroupOp(b, BitAnd(Shr(byte_2.val, 3), 7), byte_2.val, w, byte_2.n))

\* the arm b >> 1 == 0b1100011
MovImmToRegMem(b, w, i) ==
    ThenParsed(next(w, i), LAMBDA byte_2 :
    Parsed("Mov", parse_imm_to_reg_mem(b, byte_2.val, w, byte_2.n, FALSE)))

\* the match on byte_1, arms in source order
Dispatch(b, w, i, checks) ==
    IF Shr(b, 2) = 0 THEN Parsed("Add", parse_reg_mem_either_way(b, w, i))
    ELSE IF Shr(b, 1) = 2 THEN Parsed("Add", parse_imm_to_acc(b, w, i))
    ELSE IF Shr(b, 2) = 34 THEN Parsed("Mov", parse_reg_mem_either_way(b, w, i))
    ELSE IF Shr(b, 4) = 11 THEN Parsed("Mov", parse_mov_imm_to_reg(b, w, i))
    ELSE IF Shr(b, 1) = 99 THEN MovImmToRegMem(b, w, i)
    ELSE IF Shr(b, 1) = 80 THEN Parsed("Mov", parse_mov_mem_to_acc(b, w, i))
    ELSE IF Shr(b, 1) = 81 THEN Parsed("Mov", parse_mov_acc_to_mem(b, w, i))
    ELSE IF b = 142 THEN Parsed("Mov", parse_rm_to_sm(w, i))
    ELSE IF b = 140 THEN Parsed("Mov", parse_sm_to_rm(w, i))
    ELSE IF Shr(b, 2) = 10 THEN Parsed("Sub", parse_reg_mem_either_way(b, w, i))
    ELSE IF Shr(b, 1) = 22 THEN Parsed("Sub", parse_imm_to_acc(b, w, i))
    ELSE IF Shr(b, 2) = 14 THEN Parsed("Cmp", parse_reg_mem_either_way(b, w, i))
    ELSE IF Shr(b, 1) = 30 THEN Parsed("Cmp", parse_imm_to_acc(b, w, i))
    ELSE IF Shr(b, 2) = 32 THEN ImmediateGroup(b, w, i)
    ELSE IF b = 116 THEN Jump("Je", w, i, checks)
    ELSE IF b = 124 THEN Jump("Jl", w, i, checks)
    ELSE IF b = 117 THEN Jump("Jnz", w, i, checks)
    ELSE IF b = 126 THEN Jump("Jle", w, i, checks)
    ELSE IF b = 114 THEN Jump("Jb", w, i, checks)
    ELSE IF b = 118 THEN Jump("Jbe", w, i, checks)
    ELSE IF b = 122 THEN Jump("Jp", w, i, checks)
    ELSE IF b = 112 THEN Jump("Jo", w, i, checks)
    ELSE IF b = 120 THEN Jump("Js", w, i, checks)
    ELSE IF b = 125 THEN Jump("Jnl", w, i, checks)
    ELSE IF b = 127 THEN Jump("Jg", w, i, checks)
    ELSE IF b = 115 THEN Jump("Jnb", w, i, checks)
    ELSE IF b = 119 THEN Jump("Ja", w, i, checks)
    ELSE IF b = 123 THEN Jump("Jnp", w, i, checks)
    ELSE IF b = 113 THEN Jump("Jno", w, i, checks)
    ELSE IF b = 121 THEN Jump("Jns", w, i, checks)
    ELSE IF b = 226 THEN Jump("Loop", w, i, checks)
    ELSE IF b = 225 THEN Jump("Loopz", w, i, checks)
    ELSE IF b = 224 THEN Jump("Loopnz", w, i, checks)
    ELSE IF b = 227 THEN Jump("Jcxz", w, i, checks)
    ELSE ParsedErr("UnsupportedOpcode", i)

\* the guards of the match on byte_1 in source order: an arm is taken when
\* b >> sh == val (a literal pattern has sh = 0); m is its mnemonic and arm
\* the parser it calls ("group": the immediate group, which reads the
\* mnemonic from byte 2)
Guards ==
    <<[sh |-> 2, val |-> 0, m |-> "Add", arm |-> "parse_reg_mem_either_way"],
      [sh |-> 1, val |-> 2, m |-> "Add", arm |-> "parse_imm_to_acc"],
      [sh |-> 2, val |-> 34, m |-> "Mov", arm |-> "parse_reg_mem_either_way"],
      [sh |-> 4, val |-> 11, m |-> "Mov", arm |-> "parse_mov_imm_to_reg"],
      [sh |-> 1, val |-> 99, m |-> "Mov", arm |-> "parse_imm_to_reg_mem"],
      [sh |-> 1, val |-> 80, m |-> "Mov", arm |-> "parse_mov_mem_to_acc"],
      [sh |-> 1, val |-> 81, m |-> "Mov", arm |-> "parse_mov_acc_to_mem"],
      [sh |-> 0, val |-> 142, m |-> "Mov", arm |-> "parse_rm_to_sm"],
      [sh |-> 0, val |-> 140, m |-> "Mov", arm |-> "parse_sm_to_rm"],
      [sh |-> 2, val |-> 10, m |-> "Sub", arm |-> "parse_reg_mem_either_way"],
      [sh |-> 1, val |-> 22, m |-> "Sub", arm |-> "parse_imm_to_acc"],
      [sh |-> 2, val |-> 14, m |-> "Cmp", arm |-> "parse_reg_mem_either_way"],
      [sh |-> 1, val |-> 30, m |-> "Cmp", arm |-> "parse_imm_to_acc"],
      [sh |-> 2, val |-> 32, m |-> "", arm |-> "group"],
      [sh |-> 0, val |-> 116, m |-> "Je", arm |-> "parse_ip_inc_8"],
      [sh |-> 0, val |-> 124, m |-> "Jl", arm |-> "parse_ip_inc_8"],
      [sh |-> 0, val |-> 117, m |-> "Jnz", arm |-> "parse_ip_inc_8"],
      [sh |-> 0, val |-> 126, m |-> "Jle", arm |-> "parse_ip_inc_8"],
      [sh |-> 0, val |-> 114, m |-> "Jb", arm |-> "parse_ip_inc_8"],
      [sh |-> 0, val |-> 118, m |-> "Jbe", arm |-> "parse_ip_inc_8"],
      [sh |-> 0, val |-> 122, m |-> "Jp", arm |-> "parse_ip_inc_8"],
      [sh |-> 0, val |-> 112, m |-> "Jo", arm |-> "parse_ip_inc_8"],
      [sh |-> 0, val |-> 120, m |-> "Js", arm |-> "parse_ip_inc_8"],
      [sh |-> 0, val |-> 125, m |-> "Jnl", arm |-> "parse_ip_inc_8"],
      [sh |-> 0, val |-> 127, m |-> "Jg", arm |-> "parse_ip_inc_8"],
      [sh |-> 0, val |-> 115, m |-> "Jnb", arm |-> "parse_ip_inc_8"],
      [sh |-> 0, val |-> 119, m |-> "Ja", arm |-> "parse_ip_inc_8"],
      [sh |-> 0, val |-> 123, m |-> "Jnp", arm |-> "parse_ip_inc_8"],
      [sh |-> 0, val |-> 113, m |-> "Jno", arm |-> "parse_ip_inc_8"],
      [sh |-> 0, val |-> 121, m |-> "Jns", arm |-> "parse_ip_inc_8"],
      [sh |-> 0, val |-> 226, m |-> "Loop", arm |-> "parse_ip_inc_8"],
      [sh |-> 0, val |-> 225, m |-> "Loopz", arm |-> "parse_ip_inc_8"],
      [sh |-> 0, val |-> 224, m |-> "Loopnz", arm |-> "parse_ip_inc_8"],
      [sh |-> 0, val |-> 227, m |-> "Jcxz", arm |-> "parse_ip_inc_8"]>>

\* Matches comparing one bit fewer of the opcode
Matches_loose(g, b) == Shr(b, g.sh + 1) = Shr(g.val, 1)

\* the guard g holds of the first byte b
Matches(g, b) == Shr(b, g.sh) = g.val

\* the guards that hold of the first byte b
Matching(b) == {k \in 1 .. Len(Guards) : Matches(Guards[k], b)}

\* the right-hand side of the arm with guard g
Arm(g, b, w, i, checks) ==
    CASE g.arm = "parse_reg_mem_either_way" ->
             Parsed(g.m, parse_reg_mem_either_way(b, w, i))
      [] g.arm = "parse_imm_to_acc" -> Parsed(g.m, parse_imm_to_acc(b, w, i))
      [] g.arm = "parse_mov_imm_to_reg" -> Parsed(g.m, parse_mov_imm_to_reg(b, w, i))
      [] g.arm = "parse_imm_to_reg_mem" -> MovImmToRegMem(b, w, i)
      [] g.arm = "parse_mov_mem_to_acc" -> Parsed(g.m, parse_mov_mem_to_acc(b, w, i))
      [] g.arm = "parse_mov_acc_to_mem" -> Parsed(g.m, parse_mov_acc_to_mem(b, w, i))
      [] g.arm = "parse_rm_to_sm" -> Parsed(g.m, parse_rm_to_sm(w, i))
      [] g.arm = "parse_sm_to_rm" -> Parsed(g.m, parse_sm_to_rm(w, i))
      [] g.arm = "group" -> ImmediateGroup(b, w, i)
      [] g.arm = "parse_ip_inc_8" -> Jump(g.m, w, i, checks)

Inst_parse(w, checks) ==
    ThenParsed(maybe_next(w, 0), LAMBDA first :
    IF ~first.val.some THEN ParsedNone(first.n)
    ELSE Dispatch(first.val.byte, w, first.n, checks))

\* ------------------------------------------------------------------------
\* Execution engine (computer.rs)
\* ------------------------------------------------------------------------

\* bitflags! struct Flags: u16
Sign == 1

Parity == 2

Zero == 4

FlagsEmpty == 0

FlagsContains(f, flag) == BitAnd(f, flag) # 0

\* Flags::set(flag, value)
FlagsSet(f, flag, value) ==
    IF value THEN (IF FlagsContains(f, flag) THEN f ELSE f + flag)
    ELSE (IF FlagsContains(f, flag) THEN f - flag ELSE f)

NoRegUpdate == [some |-> FALSE, reg |-> "", from_val |-> 0, to_val |-> 0]

SomeRegUpdate(r, f, t) == [some |-> TRUE, reg |-> r, from_val |-> f, to_val |-> t]

NoPair == [some |-> FALSE, from |-> 0, to |-> 0]

SomePair(f, t) == [some |-> TRUE, from |-> f, to |-> t]

\* Update::default()
DefaultUpdate ==
    [reg_update |-> NoRegUpdate, flag_update |-> NoPair, ip_update |-> NoPair]

\* the fields of Computer the engine mutates; panicked marks an abort
Computer(regs, f, u) ==
    [registers |-> regs, flags |-> f, last_update |-> u, panicked |-> FALSE]

Slots == 0 .. 11

\* Computer::get_register
get_register(c, reg) ==
    LET val == c.registers[get_reg_ix(reg)] IN
    CASE get_type(reg) = "Low" -> BitAnd(val, 255)
      [] get_type(reg) = "High" -> Shr(BitAnd(val, 65280), 8)
      [] get_type(reg) = "Wide" -> val

\* NewSlotValue storing the new value over the whole slot for every class
NewSlotValue_whole(reg, from_val, to_val) == to_val

\* the slot value update_register stores; its additions are u16 additions
NewSlotValue(reg, from_val, to_val) ==
    CASE get_type(reg) = "Low" -> BitAnd(from_val, 65280) + to_val
      [] get_type(reg) = "High" -> Shl16(to_val, 8) + BitAnd(from_val, 255)
      [] get_type(reg) = "Wide" -> to_val

\* the stores of update_register; a u16 sum past 0xFFFF panics when the
\* build checks overflow and wraps otherwise
Store(c, reg, from_val, sum, checks) ==
    IF sum >= U16 /\ checks THEN [c EXCEPT !.panicked = TRUE]
    ELSE [c EXCEPT
            !.registers[get_reg_ix(reg)] = sum % U16,
            !.last_update.reg_update = SomeRegUpdate(reg, from_val, sum % U16)]

\* Computer::update_register
update_register(c, reg, to_val, checks) ==
    Store(c, reg, c.registers[get_reg_ix(reg)],
          NewSlotValue(reg, c.registers[get_reg_ix(reg)], to_val), checks)

\* NewFlags with the parity taken over all 16 bits of the result
NewFlags_parity16(f, result) ==
    FlagsSet(FlagsSet(FlagsSet(f, Sign, AsI16(result) < 0), Zero, result = 0),
             Parity, (16 - CountZeros(result)) % 2 = 0)

\* the three Flags::set calls of update_flags
NewFlags(f, result) ==
    FlagsSet(FlagsSet(FlagsSet(f, Sign, AsI16(result) < 0), Zero, result = 0),
             Parity, (16 - CountZeros(BitAnd(result, 255))) % 2 = 0)

\* the store of update_flags and its flag delta
SetFlags(c, flags_before, flags_after) ==
    IF flags_before # flags_after
    THEN [c EXCEPT !.flags = flags_after,
                   !.last_update.flag_update = SomePair(flags_before, flags_after)]
    ELSE [c EXCEPT !.flags = flags_after]

\* Computer::update_flags
update_flags(c, result) == SetFlags(c, c.flags, NewFlags(c.flags, result))

\* the closure chosen for the mnemonic
ApplyOp(mnemonic, a, b) ==
    IF mnemonic = "Add" THEN WrappingAdd(a, b) ELSE WrappingSub(a, b)

\* Computer::do_op: the engine after the flags are set, and the result
do_op(c, a, b, mnemonic) ==
    [c |-> update_flags(c, ApplyOp(mnemonic, get_register(c, a), b)),
     res |-> ApplyOp(mnemonic, get_register(c, a), b)]

\* Computer::update_ip
update_ip(c, ip_before, ip_after) ==
    [c EXCEPT !.last_update.ip_update = SomePair(ip_before, ip_after)]

\* results of execute_instruction
Halt(c, p) ==
    [c |-> c, pos |-> p,
     result |-> [kind |-> "Halt", err |-> "", inst |-> NoInst, update |-> DefaultUpdate]]

Err(c, p, e) ==
    [c |-> c, pos |-> p,
     result |-> [kind |-> "Err", err |-> e, inst |-> NoInst, update |-> DefaultUpdate]]

\* a panic (todo!, or an overflow check) while i was being executed
Panic(c, p, i) ==
    [c |-> [c EXCEPT !.panicked = TRUE], pos |-> p,
     result |-> [kind |-> "Panic", err |-> "panic", inst |-> i, update |-> DefaultUpdate]]

\* Success handing out a copy of the pending delta and leaving it in place
Success_keep(c, p, i) ==
    IF c.panicked THEN Panic(c, p, i)
    ELSE [c |-> c, pos |-> p,
          result |-> [kind |-> "Success", err |-> "", inst |-> i,
                      update |-> c.last_update]]

\* Ok(ExeResult::Success(i, take(&mut self.last_update)))
Success(c, p, i) ==
    IF c.panicked THEN Panic(c, p, i)
    ELSE [c |-> [c EXCEPT !.last_update = DefaultUpdate], pos |-> p,
          result |-> [kind |-> "Success", err |-> "", inst |-> i,
                      update |-> c.last_update]]

\* the value a Mov or an arithmetic instruction reads from its source
SourceOf(c, source) ==
    IF source.tag = "Register" THEN get_register(c, source.reg)
    ELSE DataToU16(source.data)

\* ExecMov recomputing the flags from the value moved
ExecMov_flags(c, p, i, checks) ==
    IF i.op1.tag = "Register" /\ i.op2.tag \in {"Data", "Register"}
    THEN Success(update_register(update_flags(c, SourceOf(c, i.op2)), i.op1.reg,
                                 SourceOf(c, i.op2), checks), p, i)
    ELSE Panic(c, p, i)

\* the arm Mov of execute_instruction
ExecMov(c, p, i, checks) ==
    IF i.op1.tag = "Register" /\ i.op2.tag = "Data"
    THEN Success(update_register(c, i.op1.reg, DataToU16(i.op2.data), checks), p, i)
    ELSE IF i.op1.tag = "Register" /\ i.op2.tag = "Register"
    THEN Success(update_register(c, i.op1.reg, get_register(c, i.op2.reg), checks),
                 p, i)
    ELSE Panic(c, p, i)

\* Commit storing the result for Cmp as well
Commit_always(r, p, i, checks) ==
    Success(update_register(r.c, i.op1.reg, r.res, checks), p, i)

\* the end of the arithmetic arm, r being what do_op returned: Cmp drops
\* the result, Add and Sub store it
Commit(r, p, i, checks) ==
    IF i.mnemonic # "Cmp"
    THEN Success(update_register(r.c, i.op1.reg, r.res, checks), p, i)
    ELSE Success(r.c, p, i)

\* ExecArith reading a source it does not model as zero
ExecArith_lenient(c, p, i, checks) ==
    IF i.op1.tag # "Register" THEN Err(c, p, "InvalidDestination")
    ELSE IF i.op2.tag \notin {"Register", "DataArg", "Data"}
    THEN Commit(do_op(c, i.op1.reg, 0, i.mnemonic), p, i, checks)
    ELSE Commit(do_op(c, i.op1.reg, SourceOf(c, i.op2), i.mnemonic), p, i, checks)

\* the arm Sub | Cmp | Add of execute_instruction
ExecArith(c, p, i, checks) ==
    IF i.op1.tag # "Register" THEN Err(c, p, "InvalidDestination")
    ELSE IF i.op2.tag \notin {"Register", "DataArg", "Data"}
    THEN Err(c, p, "InvalidSource")
    ELSE Commit(do_op(c, i.op1.reg, SourceOf(c, i.op2), i.mnemonic), p, i, checks)

\* execute_instruction once the instruction i is decoded and update_ip done
ExecInst(c, ip_after, i, checks) ==
    IF i.op1.tag = "None" \/ i.op2.tag = "None" THEN Panic(c, ip_after, i)
    ELSE IF i.mnemonic = "Mov" THEN ExecMov(c, ip_after, i, checks)
    ELSE IF i.mnemonic \in {"Sub", "Cmp", "Add"} THEN ExecArith(c, ip_after, i, checks)
    ELSE Panic(c, ip_after, i)

\* execute_instruction from the result of Inst::parse on
ExecParsed(c, ip_before, parsed, checks) ==
    IF parsed.kind = "Panic" THEN Panic(c, ip_before + parsed.n, NoInst)
    ELSE IF parsed.kind = "Err" THEN Err(c, ip_before + parsed.n, parsed.err)
    ELSE IF parsed.kind = "None" THEN Halt(c, ip_before + parsed.n)
    ELSE ExecInst(update_ip(c, ip_before, ip_before + parsed.n),
                  ip_before + parsed.n, parsed.inst, checks)

\* Computer::execute_instruction on the bytes w that follow the cursor
execute_instruction(c, ip_before, w, checks) ==
    ExecParsed(c, ip_before, Inst_parse(w, checks), checks)

\* ------------------------------------------------------------------------
\* The simulation run
\* ------------------------------------------------------------------------

VARIABLES
    program,          \* the byte source: the class of file being read
    pos,              \* ByteStream position (the instruction pointer)
    registers,        \* Computer.registers: [u16; 12]
    flags,            \* Computer.flags
    last_update,      \* Computer.last_update
    overflow_checks,  \* whether the build panics on integer overflow
    result,           \* what the last execute_instruction call returned
    before,           \* registers, flags and last_update when that call began
    fetched           \* the bytes of the file that call had before it

vars ==
    <<program, pos, registers, flags, last_update, overflow_checks, result,
      before, fetched>>

\* byte values of a program that exercises the engine: opcodes of the
\* executable forms, their addressing-mode bytes and boundary immediates
ExecBytes == {0, 1, 4, 5, 44, 60, 128, 176, 180, 184, 255}

\* byte values of a program that copies and adds byte registers
AliasBytes == {1, 4, 136, 179, 216, 255}

\* byte values that follow the first two bytes of a decoder test program
TailBytes == {0, 255}

\* first bytes followed by an addressing-mode byte and nothing but what that
\* byte asks for: add, sub, cmp, mov either way, and the two segment movs
RmOpcodes ==
    (0 .. 3) \cup (40 .. 43) \cup (56 .. 59) \cup (136 .. 139) \cup {140, 142}

\* the bytes of the files run to their end: add r/m16, r16 / add al, imm8 /
\* sub al, imm8 / mov al, imm8 / an opcode the decoder does not know
RunBytes == {1, 4, 44, 176, 255}

\* first bytes of the immediate-to-register/memory forms: the arithmetic
\* group and mov
ImmOpcodes == (128 .. 131) \cup {198, 199}

\* the longest file of each class, in bytes
Limit(prog) ==
    CASE prog = "exec" -> MaxLen
      [] prog = "alias" -> MaxAliasLen
      [] prog = "any" -> MaxDecodeLen
      [] prog = "modrm" -> MaxModrmLen
      [] prog = "imm" -> MaxImmLen
      [] prog = "run" -> MaxRunLen

\* the values a file of the class may hold at an offset
ByteAt(prog, offset) ==
    CASE prog = "exec" -> ExecBytes
      [] prog = "alias" -> AliasBytes
      [] prog = "any" -> IF offset < 2 THEN Byte ELSE TailBytes
      [] prog = "modrm" -> IF offset = 0 THEN RmOpcodes
                           ELSE IF offset = 1 THEN Byte ELSE TailBytes
      [] prog = "imm" -> IF offset = 0 THEN ImmOpcodes
                         ELSE IF offset = 1 THEN Byte ELSE TailBytes
      [] prog = "run" -> RunBytes

\* the bytes the file holds from the cursor on, as far as the decoder reads
\* them: when the decoder runs off the end of w, either the file ends there
\* or it holds one more byte
\* (the decoder ran off the end of its bytes)
WantsMore(r) == r.kind = "None" \/ (r.kind = "Err" /\ r.err = "UnexpectedEof")

RECURSIVE Fetch(_, _, _, _)
Fetch(prog, p, w, checks) ==
    IF WantsMore(Inst_parse(w, checks)) /\ p + Len(w) < Limit(prog)
    THEN {w} \cup UNION {Fetch(prog, p, Append(w, b), checks) :
                            b \in ByteAt(prog, p + Len(w))}
    ELSE {w}

NoResult ==
    [kind |-> "Start", err |-> "", inst |-> NoInst, update |-> DefaultUpdate]

\* Computer::new
New ==
    /\ pos = 0
    /\ registers = [ix \in Slots |-> 0]
    /\ flags = FlagsEmpty
    /\ last_update = DefaultUpdate
    /\ result = NoResult
    /\ before = Computer(registers, flags, last_update)
    /\ fetched = <<>>

Init ==
    /\ program = "exec"
    /\ overflow_checks \in BOOLEAN
    /\ New

InitAlias ==
    /\ program = "alias"
    /\ overflow_checks \in BOOLEAN
    /\ New

InitDecode ==
    /\ program = "any"
    /\ overflow_checks \in BOOLEAN
    /\ New

InitModrm ==
    /\ program = "modrm"
    /\ overflow_checks \in BOOLEAN
    /\ New

InitImm ==
    /\ program = "imm"
    /\ overflow_checks \in BOOLEAN
    /\ New

InitRun ==
    /\ program = "run"
    /\ overflow_checks \in BOOLEAN
    /\ New

\* the caller's loop: execute_instruction is called again only after a
\* Success; Halt, an error or a panic ends the run
Running == result.kind \in {"Start", "Success"}

\* the engine and the cursor after a call that returned out
Returns(out) ==
    /\ registers' = out.c.registers
    /\ flags' = out.c.flags
    /\ last_update' = out.c.last_update
    /\ pos' = out.pos
    /\ result' = out.result

\* one call of Computer::execute_instruction
Execute ==
    /\ Running
    /\ \E w \in Fetch(program, pos, <<>>, overflow_checks) :
         /\ fetched' = w
         /\ Returns(execute_instruction(Computer(registers, flags, last_update),
                                        pos, w, overflow_checks))
    /\ before' = Computer(registers, flags, last_update)
    /\ UNCHANGED <<program, overflow_checks>>

Next == Execute

Spec == Init /\ [][Next]_vars

SpecAlias == InitAlias /\ [][Next]_vars

SpecDecode == InitDecode /\ [][Next]_vars

SpecModrm == InitModrm /\ [][Next]_vars

SpecImm == InitImm /\ [][Next]_vars

\* the caller calls execute_instruction again as long as the run goes on
SpecLive == InitRun /\ [][Next]_vars /\ WF_vars(Execute)

\* one call of Computer::execute_instruction by a caller that goes on after
\* an error: the Computer and its cursor are left usable by an Err return
ExecuteAfterError ==
    /\ result.kind = "Err"
    /\ \E w \in Fetch(program, pos, <<>>, overflow_checks) :
         /\ fetched' = w
         /\ Returns(execute_instruction(Computer(registers, flags, last_update),
                                        pos, w, overflow_checks))
    /\ before' = Computer(registers, flags, last_update)
    /\ UNCHANGED <<program, overflow_checks>>

NextRetry == Execute \/ ExecuteAfterError

SpecRetry == Init /\ [][NextRetry]_vars

\* ------------------------------------------------------------------------
\* Properties of the execution engine
\* ------------------------------------------------------------------------

\* the engine as it stands now
Now == Computer(registers, flags, last_update)

Succeeded == result.kind = "Success"

\* the last call executed a mnemonic of ms to completion, into a register
Wrote(ms) ==
    /\ Succeeded
    /\ result.inst.mnemonic \in ms
    /\ result.inst.op1.tag = "Register"

DestSlot == get_reg_ix(result.inst.op1.reg)

HighByte(x) == x \div 256

LowByte(x) == x % 256

\* number of 1 bits among the low 8 bits of x
OnesInLowByte(x) == Cardinality({k \in 0 .. 7 : (x \div Pow2(k)) % 2 = 1})

\* the flag set the specification assigns to a 16-bit result r
FlagsOf(r) ==
    (IF r >= 32768 THEN Sign ELSE 0)
    + (IF r = 0 THEN Zero ELSE 0)
    + (IF OnesInLowByte(r) % 2 = 0 THEN Parity ELSE 0)

\* the source operand of the last instruction, read before it ran
SourceValue ==
    IF result.inst.op2.tag = "Register"
    THEN get_register(before, result.inst.op2.reg)
    ELSE result.inst.op2.data.val

\* the 16-bit wrapping result of the last Add, Sub or Cmp
ArithResult ==
    IF result.inst.mnemonic = "Add"
    THEN (get_register(before, result.inst.op1.reg) + SourceValue) % U16
    ELSE (get_register(before, result.inst.op1.reg) - SourceValue) % U16

\* C1: a Mov, Add or Sub into a low-byte register leaves the top 8 bits of
\* the slot as they were, and into a high-byte register the bottom 8 bits.
C1_ByteWriteKeepsOtherHalf ==
    Wrote({"Mov", "Add", "Sub"}) =>
        /\ get_type(result.inst.op1.reg) = "Low" =>
              HighByte(registers[DestSlot]) = HighByte(before.registers[DestSlot])
        /\ get_type(result.inst.op1.reg) = "High" =>
              LowByte(registers[DestSlot]) = LowByte(before.registers[DestSlot])

\* the last instruction was mov al, <byte immediate>
MovAlImm ==
    /\ Wrote({"Mov"})
    /\ result.inst.op1.reg = "AL"
    /\ result.inst.op2.tag = "Data"

\* C2: after mov al, v on a slot holding X, AX reads (X & 0xFF00) | v.
C2_MovAlThenReadAx ==
    MovAlImm =>
        get_register(Now, "AX") =
            HighByte(before.registers[0]) * 256 + result.inst.op2.data.val

\* C2 witness: mov al, v over a slot whose high byte is not zero and whose
\* low byte is not v
C2_Witness ==
    /\ MovAlImm
    /\ HighByte(before.registers[0]) # 0
    /\ LowByte(before.registers[0]) # result.inst.op2.data.val
    /\ result.inst.op2.data.val # 0

\* C3: after an Add, Sub or Cmp with 16-bit result r the flag set is exactly
\* Sign iff bit 15 of r, Zero iff r = 0, Parity iff the low byte of r has an
\* even number of 1 bits; the five results the specification names included.
C3_FlagsFromResult ==
    Wrote({"Add", "Sub", "Cmp"}) =>
        /\ flags = FlagsOf(ArithResult)
        /\ ArithResult = 0 => flags = Zero + Parity
        /\ ArithResult = 1 => flags = FlagsEmpty
        /\ ArithResult = 32768 => flags = Sign + Parity
        /\ ArithResult = 65535 => flags = Sign + Parity
        /\ ArithResult = 128 => flags = FlagsEmpty

\* C3 witness: an arithmetic step whose result is 0x8000, after flags that
\* were something else
C3_Witness ==
    /\ Wrote({"Add", "Sub", "Cmp"})
    /\ ArithResult = 32768
    /\ flags = Sign + Parity
    /\ before.flags # flags

\* what Sub does with the operands of the last instruction, from the state
\* that instruction started in
SubOutcome ==
    ExecArith(before, pos, [result.inst EXCEPT !.mnemonic = "Sub"],
              overflow_checks)

\* C4: Cmp leaves all 12 slots as they were, reports no register delta, and
\* leaves the flags Sub leaves with the same operands from the same state.
C4_CmpIsSubWithoutWrite ==
    Wrote({"Cmp"}) =>
        /\ registers = before.registers
        /\ ~result.update.reg_update.some
        /\ flags = SubOutcome.c.flags

\* C4 witness: a Cmp that changed the flags, on operands for which Sub
\* changes the destination
C4_Witness ==
    /\ Wrote({"Cmp"})
    /\ result.update.flag_update.some
    /\ SubOutcome.result.kind = "Success"
    /\ SubOutcome.c.registers # before.registers

\* C5: a Mov leaves the flags as they were and reports no flag delta; the
\* flags differ from those before a call only if it ran Add, Sub or Cmp.
C5_OnlyArithmeticChangesFlags ==
    /\ Wrote({"Mov"}) => flags = before.flags /\ ~result.update.flag_update.some
    /\ flags # before.flags => result.inst.mnemonic \in {"Add", "Sub", "Cmp"}

\* C5 witness: a Mov executed while some flag was set
C5_Witness ==
    /\ Wrote({"Mov"})
    /\ before.flags # FlagsEmpty
    /\ registers # before.registers

\* the instruction mov al, bl
MovAlBl == Inst("Mov", <<OpRegister("AL"), OpRegister("BL")>>)

\* the instruction add al, 0xFF
AddAlFF == Inst("Add", <<OpRegister("AL"), OpData(DataByte(255))>>)

\* C6: with BL = b, mov al, bl followed by add al, 0xFF leaves AL reading
\* (b - 1) mod 256 and the flags of r = (b + 0xFF) & 0xFF taken as a 16-bit
\* result, so Zero exactly when b = 1.
C6_MovAlBlAddFF ==
    [][(/\ result.kind = "Success" /\ result.inst = MovAlBl
        /\ result'.kind = "Success" /\ result'.inst = AddAlFF)
       => /\ LowByte(registers'[0]) = (LowByte(registers[1]) - 1) % 256
          /\ flags' = FlagsOf((LowByte(registers[1]) + 255) % 256)]_vars

\* ------------------------------------------------------------------------
\* Properties of the decoder
\* ------------------------------------------------------------------------

\* what Inst::parse returned in the last call
LastParse == Inst_parse(fetched, overflow_checks)

Called == result.kind # "Start"

\* wide general registers by the low 3 bits of the opcode
WideRegister == <<"AX", "CX", "DX", "BX", "SP", "BP", "SI", "DI">>

\* the last call had the three bytes of a mov into a wide register
MovWideImm == Called /\ Len(fetched) = 3 /\ fetched[1] \in 184 .. 191

\* C7: a first byte 0xB8..0xBF and two little-endian bytes of v decode to
\* mov R, v with R chosen by the low 3 bits; on a zeroed register file the
\* step returns the register delta (R, 0, v) and no flag delta; B8 05 00 is
\* mov ax, 5 with delta ax:0x0->0x5.
C7_MovWideImmediate ==
    MovWideImm =>
        /\ LastParse.kind = "Inst"
        /\ result.kind = "Success"
        /\ result.inst =
              Inst("Mov", <<OpRegister(WideRegister[(fetched[1] % 8) + 1]),
                            OpData(DataWord(fetched[2] + 256 * fetched[3]))>>)
        /\ before.registers = [ix \in Slots |-> 0] =>
              /\ result.update.reg_update =
                    SomeRegUpdate(WideRegister[(fetched[1] % 8) + 1], 0,
                                  fetched[2] + 256 * fetched[3])
              /\ ~result.update.flag_update.some
        /\ fetched = <<184, 5, 0>> =>
              /\ result.inst = Inst("Mov", <<OpRegister("AX"), OpData(DataWord(5))>>)
              /\ result.update.reg_update = SomeRegUpdate("AX", 0, 5)

\* C7 witness: B8 05 00 executed on the zeroed register file
C7_Witness ==
    /\ fetched = <<184, 5, 0>>
    /\ before.registers = [ix \in Slots |-> 0]
    /\ registers[0] = 5

\* w followed by enough zero bytes to complete any instruction
Padded(w) == w \o <<0, 0, 0, 0, 0>>

\* w is a proper, non-empty prefix of the bytes of an instruction
Truncated(w) ==
    /\ Len(w) >= 1
    /\ Inst_parse(Padded(w), FALSE).kind = "Inst"
    /\ Inst_parse(Padded(w), FALSE).n > Len(w)

\* C8: when the input ends before the last byte of an instruction, the step
\* fails with the unexpected-end-of-input error, not an instruction and not
\* a clean end of stream, and registers, flags and pending delta are as
\* they were before the step.
C8_TruncatedInputFails ==
    (Called /\ Truncated(fetched)) =>
        /\ LastParse.kind = "Err" /\ LastParse.err = "UnexpectedEof"
        /\ result.kind = "Err" /\ result.err = "UnexpectedEof"
        /\ registers = before.registers
        /\ flags = before.flags
        /\ last_update = before.last_update

\* C8 witness: the input ended after the single byte 0x00, which needs an
\* addressing-mode byte, following an instruction that left a pending delta
C8_Witness ==
    /\ result.kind = "Err"
    /\ fetched = <<0>>
    /\ before.registers # [ix \in Slots |-> 0]

\* C9: Inst::parse returns None exactly when the source is exhausted as the
\* first byte is requested, never after consuming a byte, and the step
\* returns Halt exactly when Inst::parse returned None.
C9_NoneOnlyAtCleanEnd ==
    Called =>
        /\ LastParse.kind = "None" <=> fetched = <<>>
        /\ Len(fetched) >= 1 => LastParse.kind \in {"Inst", "Err", "Panic"}
        /\ result.kind = "Halt" <=> LastParse.kind = "None"

\* C9 witness: Halt at the end of a source that held an instruction
C9_Witness ==
    /\ result.kind = "Halt"
    /\ fetched = <<>>
    /\ pos > 0

\* first bytes that match a guard of the decoder
Supported ==
    (0 .. 5) \cup (40 .. 45) \cup (56 .. 61) \cup (112 .. 131)
    \cup (136 .. 140) \cup {142} \cup (160 .. 163) \cup (176 .. 191)
    \cup {198, 199} \cup (224 .. 227)

\* the last call read an immediate-group opcode and a second byte whose reg
\* field is none of 000, 101, 111
BadGroupOp ==
    /\ Called
    /\ Len(fetched) >= 2
    /\ fetched[1] \in 128 .. 131
    /\ (fetched[2] \div 8) % 8 \notin {0, 5, 7}

\* C10: a first byte matching no bit pattern, and an immediate-group first
\* byte whose second byte has a reg field other than 000, 101, 111, make
\* Inst::parse return an unsupported-opcode error, never an instruction.
C10_UnsupportedIsAnError ==
    /\ (Called /\ Len(fetched) >= 1 /\ fetched[1] \notin Supported) =>
          /\ LastParse.kind = "Err" /\ LastParse.err = "UnsupportedOpcode"
          /\ result.kind = "Err" /\ result.err = "UnsupportedOpcode"
    /\ BadGroupOp =>
          /\ LastParse.kind = "Err" /\ LastParse.err = "UnsupportedOp"
          /\ result.kind = "Err" /\ result.err = "UnsupportedOp"

\* C10 witness: 83 C8 (reg field 001) after an instruction that succeeded
C10_Witness ==
    /\ BadGroupOp
    /\ fetched = <<131, 200>>
    /\ result.kind = "Err"

\* first bytes of the 16 conditional jumps and of loop, loopz, loopnz, jcxz
JumpOpcodes == (112 .. 127) \cup (224 .. 227)

\* the byte d read as a signed 8-bit value
Signed8(d) == IF d >= 128 THEN d - 256 ELSE d

\* the last call had a jump opcode and its displacement byte
JumpFetched == Called /\ Len(fetched) = 2 /\ fetched[1] \in JumpOpcodes

\* C11: for each of the 20 jump and loop opcodes and every displacement
\* byte d, the decoded RelativeJump offset is (d as a signed 8-bit value)
\* + 2, without overflow or wrap-around.
C11_JumpOffsetPlusTwo ==
    JumpFetched =>
        /\ LastParse.kind = "Inst"
        /\ LastParse.inst.op1 = OpRelativeJump(Signed8(fetched[2]) + 2)

\* ------------------------------------------------------------------------
\* Properties of the addressing-mode byte
\* ------------------------------------------------------------------------

\* the last call read a first byte of RmOpcodes and an addressing-mode byte
RmFetched == Called /\ Len(fetched) >= 2 /\ fetched[1] \in RmOpcodes

\* the mod and r/m fields of the addressing-mode byte of the last call
ModField == fetched[2] \div 64

RmField == fetched[2] % 8

RegField == (fetched[2] \div 8) % 8

\* bit 1 of the first byte: the r/m operand is the source
RmIsSource == (fetched[1] \div 2) % 2 = 1

\* the operand of the last decoded instruction that the r/m field names
RmOperand == IF RmIsSource THEN LastParse.inst.op2 ELSE LastParse.inst.op1

\* the operand of the last decoded instruction that the reg field names
RegOperand == IF RmIsSource THEN LastParse.inst.op1 ELSE LastParse.inst.op2

\* the Base and Base+Index forms by r/m, without and with a displacement
BareForm(rm) ==
    <<RegnReg("BX", "SI"), RegnReg("BX", "DI"), RegnReg("BP", "SI"),
      RegnReg("BP", "DI"), Reg("SI"), Reg("DI"), Reg("BP"), Reg("BX")>>[rm + 1]

DispForm(rm, d) ==
    <<RegnRegnData("BX", "SI", d), RegnRegnData("BX", "DI", d),
      RegnRegnData("BP", "SI", d), RegnRegnData("BP", "DI", d),
      RegnData("SI", d), RegnData("DI", d), RegnData("BP", d),
      RegnData("BX", d)>>[rm + 1]

\* C12: mode 01 reads exactly one displacement byte and mode 10 exactly two,
\* little-endian; a zero displacement gives the bare Base or Base+Index form
\* (bare BP for r/m = 110), a non-zero one the form carrying its value.
C12_DisplacementModes ==
    /\ (RmFetched /\ ModField = 1 /\ Len(fetched) >= 3) =>
          /\ LastParse.kind = "Inst"
          /\ LastParse.n = 3
          /\ RmOperand =
                OpMemory(IF fetched[3] = 0 THEN BareForm(RmField)
                         ELSE DispForm(RmField, DispByte(fetched[3])))
    /\ (RmFetched /\ ModField = 2 /\ Len(fetched) >= 4) =>
          /\ LastParse.kind = "Inst"
          /\ LastParse.n = 4
          /\ RmOperand =
                OpMemory(IF fetched[3] = 0 /\ fetched[4] = 0
                         THEN BareForm(RmField)
                         ELSE DispForm(RmField,
                                       DispWord(fetched[3] + 256 * fetched[4])))
    /\ (RmFetched /\ ModField = 1) =>
          /\ Len(fetched) <= 3
          /\ LastParse.kind = "Inst" => Len(fetched) = 3
    /\ (RmFetched /\ ModField = 2) =>
          /\ Len(fetched) <= 4
          /\ LastParse.kind = "Inst" => Len(fetched) = 4

\* C12 witness: mode 10, r/m 110, displacement bytes 00 FF: a word that is
\* not zero although its low byte is
C12_Witness ==
    /\ RmFetched
    /\ ModField = 2 /\ RmField = 6
    /\ Len(fetched) = 4 /\ fetched[3] = 0 /\ fetched[4] = 255
    /\ LastParse.kind = "Inst"

\* C13: mode 00 reads no displacement byte and yields BX+SI, BX+DI, BP+SI,
\* BP+DI, SI, DI, BX for r/m 000..101 and 111; r/m = 110 yields a Direct
\* address assembled little-endian from exactly the next two bytes, never
\* the BP-only form.
C13_ModeZero ==
    /\ (RmFetched /\ ModField = 0 /\ RmField # 6) =>
          /\ LastParse.kind = "Inst"
          /\ LastParse.n = 2 /\ Len(fetched) = 2
          /\ RmOperand = OpMemory(BareForm(RmField))
    /\ (RmFetched /\ ModField = 0 /\ RmField = 6) =>
          /\ Len(fetched) <= 4
          /\ LastParse.kind = "Inst" =>
                Len(fetched) = 4 /\ RmOperand # OpMemory(Reg("BP"))
          /\ Len(fetched) = 4 =>
                /\ LastParse.kind = "Inst"
                /\ LastParse.n = 4
                /\ RmOperand =
                      OpMemory(Direct(DataWord(fetched[3] + 256 * fetched[4])))

\* C13 witness: mode 00, r/m 110 followed by the bytes 00 FF
C13_Witness ==
    /\ RmFetched
    /\ ModField = 0 /\ RmField = 6
    /\ Len(fetched) = 4 /\ fetched[3] = 0 /\ fetched[4] = 255
    /\ LastParse.kind = "Inst"

\* ------------------------------------------------------------------------
\* Properties of immediate operands
\* ------------------------------------------------------------------------

\* the last call read an immediate-form first byte and an addressing-mode
\* byte that the decoder supports
ImmFetched ==
    /\ Called
    /\ Len(fetched) >= 2
    /\ fetched[1] \in ImmOpcodes
    /\ fetched[1] \in 128 .. 131 => RegField \in {0, 5, 7}

\* bit 0 (width) and bit 1 (sign) of the first byte of the last call
WidthBit == fetched[1] % 2 = 1

SignBit == (fetched[1] \div 2) % 2 = 1

\* number of displacement or address bytes the addressing-mode byte asks for
DispLen ==
    IF ModField = 1 THEN 1
    ELSE IF ModField = 2 \/ (ModField = 0 /\ RmField = 6) THEN 2
    ELSE 0

\* number of immediate bytes the family of the first byte reads
ImmLen ==
    IF fetched[1] \in {198, 199} THEN (IF WidthBit THEN 2 ELSE 1)
    ELSE IF WidthBit /\ ~SignBit THEN 2
    ELSE 1

\* the immediate the family builds from the bytes lo and hi
ImmValue(lo, hi) ==
    IF ~WidthBit THEN DataByte(lo)
    ELSE IF fetched[1] \in {198, 199} \/ ~SignBit THEN DataWord(lo + 256 * hi)
    ELSE DataWord(IF lo >= 128 THEN lo + 65280 ELSE lo)

\* the byte of the last call at offset k, 0 past its end
FetchedAt(k) == IF k <= Len(fetched) THEN fetched[k] ELSE 0

\* C14: mov immediate (C6/C7) reads one byte when narrow and two
\* little-endian bytes when wide and never sign-extends; the arithmetic
\* group (80..83) reads one byte and sign-extends it when wide with the
\* sign bit set, two bytes when wide with the sign bit clear, one byte when
\* narrow.
C14_ImmediateByFamily ==
    ImmFetched =>
        /\ Len(fetched) <= 2 + DispLen + ImmLen
        /\ LastParse.kind = "Inst" => Len(fetched) = 2 + DispLen + ImmLen
        /\ Len(fetched) = 2 + DispLen + ImmLen =>
              /\ LastParse.kind = "Inst"
              /\ LastParse.n = 2 + DispLen + ImmLen
              /\ LastParse.inst.op2.tag = "DataArg"
              /\ LastParse.inst.op2.data =
                    ImmValue(FetchedAt(3 + DispLen), FetchedAt(4 + DispLen))

\* C14 witness: C7 with a one-byte displacement and the immediate FF 00:
\* a wide mov whose low immediate byte has its top bit set
C14_Witness ==
    /\ ImmFetched
    /\ fetched = <<199, 64, 255, 255, 0>>
    /\ LastParse.kind = "Inst"
    /\ LastParse.inst.op2.data = DataWord(255)

\* the last call decoded an instruction from a first byte A0..A3
AccMemDecoded ==
    /\ Called
    /\ Len(fetched) >= 1
    /\ fetched[1] \in 160 .. 163
    /\ LastParse.kind = "Inst"

\* the memory operand of A0/A1 (memory to accumulator) is the source, of
\* A2/A3 (accumulator to memory) the destination
AccMemOperand ==
    IF fetched[1] \in {160, 161} THEN LastParse.inst.op2 ELSE LastParse.inst.op1

\* C15: for each of A0..A3 the decoder consumes exactly two bytes after the
\* opcode and the memory operand is a Direct address holding their 16-bit
\* little-endian value, whatever the width bit is.
C15_AccumulatorMovAddress ==
    AccMemDecoded =>
        /\ LastParse.n = 3
        /\ Len(fetched) = 3
        /\ AccMemOperand =
              OpMemory(Direct(DataWord(FetchedAt(2) + 256 * FetchedAt(3))))

\* first bytes of the register/memory either-way forms of add, sub, cmp, mov
EitherWayOpcodes == (0 .. 3) \cup (40 .. 43) \cup (56 .. 59) \cup (136 .. 139)

\* the last call decoded an instruction of the either-way family
EitherWayDecoded ==
    /\ RmFetched
    /\ fetched[1] \in EitherWayOpcodes
    /\ LastParse.kind = "Inst"

\* byte registers by 3-bit code
NarrowRegister == <<"AL", "CL", "DL", "BL", "AH", "CH", "DH", "BH">>

\* the register table: word registers when wide, byte registers otherwise
RegTable(wide, code) ==
    IF wide THEN WideRegister[code + 1] ELSE NarrowRegister[code + 1]

\* the mnemonic of an either-way first byte
EitherWayMnemonic(b) ==
    IF b \in 0 .. 3 THEN "Add"
    ELSE IF b \in 40 .. 43 THEN "Sub"
    ELSE IF b \in 56 .. 59 THEN "Cmp"
    ELSE "Mov"

\* C16: in the either-way family bit 0 of the first byte selects word or
\* byte registers from the table AX/AL, CX/CL, DX/DL, BX/BL, SP/AH, BP/CH,
\* SI/DH, DI/BH for the reg field and for a mode-11 r/m field; with bit 1
\* set the reg-field register is the destination and the r/m operand the
\* source, otherwise the r/m operand is the destination.
C16_EitherWayOperands ==
    /\ (RmFetched /\ fetched[1] \in EitherWayOpcodes /\ ModField = 3) =>
          LastParse.kind = "Inst" /\ Len(fetched) = 2
    /\ EitherWayDecoded =>
          /\ LastParse.inst.mnemonic = EitherWayMnemonic(fetched[1])
          /\ RmIsSource =>
                /\ LastParse.inst.op1 = OpRegister(RegTable(WidthBit, RegField))
                /\ ModField = 3 =>
                      LastParse.inst.op2 = OpRegister(RegTable(WidthBit, RmField))
                /\ ModField # 3 => LastParse.inst.op2.tag = "MemoryAddress"
          /\ ~RmIsSource =>
                /\ LastParse.inst.op2 = OpRegister(RegTable(WidthBit, RegField))
                /\ ModField = 3 =>
                      LastParse.inst.op1 = OpRegister(RegTable(WidthBit, RmField))
                /\ ModField # 3 => LastParse.inst.op1.tag = "MemoryAddress"

\* C16 witness: 8A EC, a byte mov with bit 1 set, reg 101 and r/m 100:
\* mov ch, ah
C16_Witness ==
    /\ EitherWayDecoded
    /\ fetched = <<138, 236>>
    /\ LastParse.inst = Inst("Mov", <<OpRegister("CH"), OpRegister("AH")>>)

\* the complete encodings of the either-way family that a file of the
\* addressing-mode class can start with
Encodings ==
    {w \in Fetch("modrm", 0, <<>>, FALSE) :
        /\ Len(w) >= 2
        /\ w[1] \in EitherWayOpcodes
        /\ Inst_parse(w, FALSE).kind = "Inst"}

\* each encoding with the instruction it decodes to
Decoded == {<<w, Inst_parse(w, FALSE).inst>> : w \in Encodings}

\* w encodes no displacement or a zero one, in mode 00, 01 or 10
ZeroDisplacement(w) ==
    \/ w[2] \div 64 = 0 /\ w[2] % 8 # 6
    \/ w[2] \div 64 = 1 /\ w[3] = 0
    \/ w[2] \div 64 = 2 /\ w[3] = 0 /\ w[4] = 0

\* w1 and w2 differ only in how they encode a zero displacement
ZeroDispAlias(w1, w2) ==
    /\ w1[1] = w2[1]
    /\ w1[2] % 64 = w2[2] % 64
    /\ ZeroDisplacement(w1)
    /\ ZeroDisplacement(w2)

\* w1 and w2 name the same two registers in mode 11, with the direction
\* bit and the two fields exchanged
DirectionAlias(w1, w2) ==
    /\ w1[2] \div 64 = 3 /\ w2[2] \div 64 = 3
    /\ w1[1] - w2[1] \in {2, 0 - 2}
    /\ w1[1] \div 4 = w2[1] \div 4
    /\ (w1[2] \div 8) % 8 = w2[2] % 8
    /\ w1[2] % 8 = (w2[2] \div 8) % 8

\* the last call decoded an instruction of the either-way family
PairFetched ==
    /\ RmFetched
    /\ fetched[1] \in EitherWayOpcodes
    /\ LastParse.kind = "Inst"

\* the decoded encodings by mnemonic
DecodedAdd == {d \in Decoded : d[1][1] \in 0 .. 3}

DecodedSub == {d \in Decoded : d[1][1] \in 40 .. 43}

DecodedCmp == {d \in Decoded : d[1][1] \in 56 .. 59}

DecodedMov == {d \in Decoded : d[1][1] \in 136 .. 139}

\* the decoded encodings whose first byte has the mnemonic of b
DecodedLike(b) ==
    IF b \in 0 .. 3 THEN DecodedAdd
    ELSE IF b \in 40 .. 43 THEN DecodedSub
    ELSE IF b \in 56 .. 59 THEN DecodedCmp
    ELSE DecodedMov

\* every encoding decodes to the mnemonic of its first byte, so encodings
\* of two mnemonics never decode to the same Instruction
MnemonicByOpcode ==
    \A d \in Decoded : d[2].mnemonic = EitherWayMnemonic(d[1][1])

\* C17 as stated: within the either-way family two distinct encodings decode
\* to the same Instruction only when they differ solely by how a zero
\* displacement is encoded in mode 00, 01 or 10.
C17_OnlyZeroDisplacementAliases ==
    PairFetched =>
        LET inst == LastParse.inst IN
        \A d \in DecodedLike(fetched[1]) :
            (d[1] # fetched /\ d[2] = inst) => ZeroDispAlias(fetched, d[1])

\* C17 amended: two distinct encodings of the either-way family decode to
\* the same Instruction exactly when they differ by how a zero displacement
\* is encoded, or are the two directions of one register-to-register form.
C17_AliasesAreZeroDispOrDirection ==
    PairFetched =>
        /\ MnemonicByOpcode
        /\ LET inst == LastParse.inst IN
           \A d \in DecodedLike(fetched[1]) :
               d[1] # fetched =>
                   (d[2] = inst
                       <=> (ZeroDispAlias(fetched, d[1])
                               \/ DirectionAlias(fetched, d[1])))

\* C17 witness: 01 D8 (add ax, bx with the r/m field as destination) was
\* decoded, and 03 C3 decodes to the same instruction
C17_Witness ==
    /\ PairFetched
    /\ fetched = <<1, 216>>
    /\ <<<<3, 195>>, LastParse.inst>> \in Decoded
    /\ ~ZeroDispAlias(fetched, <<3, 195>>)
    /\ DirectionAlias(fetched, <<3, 195>>)

\* the last call decoded an instruction from a first byte 8C or 8E
SegmentMovDecoded ==
    /\ RmFetched
    /\ fetched[1] \in {140, 142}
    /\ LastParse.kind = "Inst"

\* segment registers by the 2-bit field
SegmentRegister == <<"ES", "CS", "SS", "DS">>

\* the segment register bits 3-4 of the second byte choose
SegmentOperand == OpRegister(SegmentRegister[((fetched[2] \div 8) % 4) + 1])

\* the register or memory operand the second byte names, of the given
\* width, with the displacement or address bytes that follow it
ExpectedRmOperand(wide) ==
    IF ModField = 3 THEN OpRegister(RegTable(wide, RmField))
    ELSE IF ModField = 0 /\ RmField = 6
    THEN OpMemory(Direct(DataWord(FetchedAt(3) + 256 * FetchedAt(4))))
    ELSE IF ModField = 0 THEN OpMemory(BareForm(RmField))
    ELSE IF ModField = 1
    THEN OpMemory(IF FetchedAt(3) = 0 THEN BareForm(RmField)
                  ELSE DispForm(RmField, DispByte(FetchedAt(3))))
    ELSE OpMemory(IF FetchedAt(3) = 0 /\ FetchedAt(4) = 0 THEN BareForm(RmField)
                  ELSE DispForm(RmField,
                                DispWord(FetchedAt(3) + 256 * FetchedAt(4))))

\* C19: 8E decodes to a Mov whose destination is the segment register of
\* bits 3-4 of the second byte (ES, CS, SS, DS) and whose source is the
\* word-width register/memory operand of that byte; 8C decodes to the same
\* two operands exchanged.
C19_SegmentMov ==
    /\ (RmFetched /\ fetched[1] \in {140, 142} /\ ModField = 3) =>
          LastParse.kind = "Inst" /\ Len(fetched) = 2
    /\ SegmentMovDecoded =>
          /\ LastParse.inst.mnemonic = "Mov"
          /\ fetched[1] = 142 =>
                /\ LastParse.inst.op1 = SegmentOperand
                /\ LastParse.inst.op2 = ExpectedRmOperand(TRUE)
          /\ fetched[1] = 140 =>
                /\ LastParse.inst.op1 = ExpectedRmOperand(TRUE)
                /\ LastParse.inst.op2 = SegmentOperand

\* C19 witness: 8E D8 is mov ds, ax
C19_Witness ==
    /\ SegmentMovDecoded
    /\ fetched = <<142, 216>>
    /\ LastParse.inst = Inst("Mov", <<OpRegister("DS"), OpRegister("AX")>>)

\* ------------------------------------------------------------------------
\* Properties of the engine at its scope boundary
\* ------------------------------------------------------------------------

\* instructions the engine does not model: jumps and loops, a Mov into or
\* out of memory or of a sized immediate, arithmetic into or out of memory
Unmodelled(i) ==
    \/ i.op1.tag = "RelativeJump"
    \/ /\ i.mnemonic = "Mov"
       /\ (i.op1.tag = "MemoryAddress"
             \/ i.op2.tag \in {"MemoryAddress", "DataArg"})
    \/ /\ i.mnemonic \in {"Add", "Sub", "Cmp"}
       /\ (i.op1.tag = "MemoryAddress" \/ i.op2.tag = "MemoryAddress")

\* the last call decoded an instruction the engine does not model
UnmodelledDecoded ==
    /\ Called
    /\ LastParse.kind = "Inst"
    /\ Unmodelled(LastParse.inst)

\* C18: given a decoded instruction it does not model, the step never
\* reports success: it ends in an error or an abort, and the register file
\* and the flag set are as they were.
C18_UnmodelledNeverSucceeds ==
    UnmodelledDecoded =>
        /\ result.kind \in {"Err", "Panic"}
        /\ registers = before.registers
        /\ flags = before.flags

\* C18 witness: 02 00, add al, [bx+si], a register destination with a
\* memory source, ends in the invalid-source error
C18_Witness ==
    /\ UnmodelledDecoded
    /\ fetched = <<2, 0>>
    /\ result.kind = "Err"
    /\ result.err = "InvalidSource"

\* ------------------------------------------------------------------------
\* Properties of the run
\* ------------------------------------------------------------------------

\* the run is over: clean end of stream, an error, or an abort
Terminated == result.kind \in {"Halt", "Err", "Panic"}

\* C20: the loop over a finite byte source always terminates: the cursor
\* never moves back, every step that returns an instruction consumes at
\* least one byte, the run ends with Halt at a clean end of stream or with
\* the first error, and nothing is decoded after that.
C20_RunTerminates ==
    /\ <>Terminated
    /\ [][pos' >= pos]_vars
    /\ [][result'.kind = "Success" => pos' > pos]_vars
    /\ [][~Terminated]_vars
    /\ [](result.kind = "Halt" => fetched = <<>>)

\* C20 witness: a run of two instructions that ended with Halt at the end
\* of a four-byte file
C20_Witness ==
    /\ result.kind = "Halt"
    /\ pos = 4
    /\ before.registers # [ix \in Slots |-> 0]

\* ------------------------------------------------------------------------
\* Properties of the delta a call returns
\* ------------------------------------------------------------------------

\* the cursor position at which the last call started
StartedAt == pos - Len(fetched)

\* C21: the Update of a successful call describes that call only. Its
\* register delta is present exactly when the instruction stores a result,
\* names the destination and holds the slot before and after the call; its
\* flag delta is present exactly when the call changed the flags and holds
\* the flags before and after; its ip delta is the cursor before and after;
\* and nothing stays pending in the engine, whatever an earlier call
\* (successful or failed) had recorded.
C21_UpdateDescribesThisStep ==
    Succeeded =>
        /\ result.update.ip_update = SomePair(StartedAt, pos)
        /\ result.update.flag_update.some <=> flags # before.flags
        /\ result.update.flag_update.some =>
              result.update.flag_update = SomePair(before.flags, flags)
        /\ result.update.reg_update.some <=> result.inst.mnemonic # "Cmp"
        /\ result.update.reg_update.some =>
              result.update.reg_update =
                  SomeRegUpdate(result.inst.op1.reg, before.registers[DestSlot],
                                registers[DestSlot])
        /\ last_update = DefaultUpdate

\* C21 witness: a Cmp that changed the flags, executed right after a call
\* that failed and left its ip delta pending
C21_Witness ==
    /\ Wrote({"Cmp"})
    /\ result.update.flag_update.some
    /\ before.last_update.ip_update.some

\* ------------------------------------------------------------------------
\* Properties of the register file
\* ------------------------------------------------------------------------

\* the registers that are one 16-bit register and its two halves
Families ==
    {{"AL", "AH", "AX"}, {"BL", "BH", "BX"}, {"CL", "CH", "CX"}, {"DL", "DH", "DX"}}

SameFamily(r1, r2) == r1 = r2 \/ \E fam \in Families : r1 \in fam /\ r2 \in fam

\* the 16-bit register reg is, or is a half of
WideOf(reg) ==
    CASE reg \in {"AL", "AH"} -> "AX"
      [] reg \in {"BL", "BH"} -> "BX"
      [] reg \in {"CL", "CH"} -> "CX"
      [] reg \in {"DL", "DH"} -> "DX"
      [] OTHER -> reg

\* C22: two registers have the same slot exactly when they are the same
\* 16-bit register or halves of it, every slot is one of the 12, and a call
\* changes no slot but the one of the destination register of an
\* instruction it executed to completion.
C22_OneSlotPerInstruction ==
    /\ \A r1 \in Register : get_reg_ix(r1) \in Slots
    /\ \A r1 \in Register : \A r2 \in Register :
          get_reg_ix(r1) = get_reg_ix(r2) <=> SameFamily(r1, r2)
    /\ \A ix \in Slots :
          registers[ix] # before.registers[ix] =>
              /\ Wrote({"Mov", "Add", "Sub"})
              /\ ix = get_reg_ix(WideOf(result.inst.op1.reg))

\* C22 witness: a byte register was written, its slot changed, and another
\* slot holds a value that is not zero
C22_Witness ==
    /\ Wrote({"Mov", "Add", "Sub"})
    /\ get_type(result.inst.op1.reg) = "Low"
    /\ registers[DestSlot] # before.registers[DestSlot]
    /\ \E ix \in Slots : ix # DestSlot /\ before.registers[ix] # 0

\* ------------------------------------------------------------------------
\* Properties of the dispatch on the first byte
\* ------------------------------------------------------------------------

\* the first bytes of which more than one guard holds
Overlapping == {b \in Byte : Cardinality(Matching(b)) > 1}

\* first bytes of the immediate-to-accumulator forms and their mnemonics
AccImmOpcodes == {4, 5, 44, 45, 60, 61}

AccImmMnemonic(b) ==
    CASE b \in {4, 5} -> "Add"
      [] b \in {44, 45} -> "Sub"
      [] b \in {60, 61} -> "Cmp"

FirstByteFetched == Called /\ Len(fetched) >= 1

\* C23: of no first byte more than one guard of Inst::parse holds, and what
\* Inst::parse returns is what the arm of the guard that holds returns
\* (the unsupported-opcode error when none holds), so the order of the
\* guards does not matter. 0x04/0x05, 0x2C/0x2D and 0x3C/0x3D take the
\* immediate-to-accumulator arm: add/sub/cmp of AL or AX and an immediate
\* of one or two bytes, with no addressing-mode byte.
C23_GuardsAreDisjoint ==
    /\ Overlapping = {}
    /\ FirstByteFetched =>
          /\ \A k \in Matching(fetched[1]) :
                LastParse = Arm(Guards[k], fetched[1], fetched, 1, overflow_checks)
          /\ Matching(fetched[1]) = {} => LastParse = ParsedErr("UnsupportedOpcode", 1)
    /\ (FirstByteFetched /\ fetched[1] \in AccImmOpcodes) =>
          /\ Matching(fetched[1]) # {}
          /\ \A k \in Matching(fetched[1]) :
                /\ Guards[k].arm = "parse_imm_to_acc"
                /\ Guards[k].m = AccImmMnemonic(fetched[1])
          /\ LastParse.kind = "Inst" =>
                /\ LastParse.inst.mnemonic = AccImmMnemonic(fetched[1])
                /\ LastParse.inst.op1 =
                      OpRegister(IF fetched[1] % 2 = 1 THEN "AX" ELSE "AL")
                /\ LastParse.inst.op2.tag = "Data"
                /\ Len(fetched) = 2 + (fetched[1] % 2)

\* C23 witness: 2D 00 FF decoded as sub ax, 0xFF00
C23_Witness ==
    /\ FirstByteFetched
    /\ fetched = <<45, 0, 255>>
    /\ LastParse.kind = "Inst"
    /\ LastParse.inst.mnemonic = "Sub"
    /\ LastParse.inst.op1 = OpRegister("AX")

====
